---------------------------- MODULE Spec2Model ----------------------------
(***************************************************************************)
(* Match Context & Narrative Engine of suksham-vachak:                      *)
(*   ContextBuilder      (suksham_vachak/context/builder.py)                *)
(*   PressureCalculator  (suksham_vachak/context/pressure.py)               *)
(*   NarrativeTracker    (suksham_vachak/context/narrative.py)              *)
(* and the callers that drive a ContextBuilder (api/routes.py,              *)
(* commentary/engine.py, demo_llm_commentary.py).                           *)
(*                                                                         *)
(* A ContextBuilder object is one record (its fields keep the source's      *)
(* names without the leading underscore); every method is an operator from  *)
(* the record before the call to the record after it.                       *)
(*                                                                         *)
(* Python floats are modelled exactly: overs_completed is kept in tenths    *)
(* of an over (6.1 overs is 61), every rate and the pressure score are      *)
(* rationals [n, d] with d > 0.  Optional values are <<>> (None) or <<v>>.   *)
(***************************************************************************)
EXTENDS Integers, Sequences, FiniteSets, TLC

\* ------------------------------------------------------------------ bounds

\* Deliveries of an innings that the environment chooses freely; the rest of
\* the innings repeats one delivery (the innings' filler).
FreeBalls == 2
\* how many phrases the engine reports back in a run
MaxPhrases == 1
\* Deliveries of the innings in which one bowler bowls to one batter.
SpellBalls == 9
\* Deliveries of the innings in which one batter scores past 200.
BattingBalls == 54
\* Deliveries of the innings that runs through every phase.
PhaseBalls == 362
\* Deliveries per innings in the long single-innings specification.
MaxBalls == 33
IsolationBalls == 3
ChaseBalls == 120
OverBalls == 7
MergeBalls == 4
PartnershipBalls == 5
CascadeFours == 13
CascadeBalls == 20

\* ------------------------------------------------------- program constants

WindowSize == 30
RecentSize == 6
PhraseCap == 20
AvoidCount == 5
CallbackCap == 5
OwnCallbackCap == 3
StorylineScan == 10
MatchupMinBalls == 10
NewBatterBalls == 10
MilestoneWindow == 15
MaxWickets == 10

\* ------------------------------------------------------------ small helpers

None == <<>>
Some(v) == <<v>>
Val(o) == o[1]

Abs(x) == IF x < 0 THEN 0 - x ELSE x
RECURSIVE Gcd(_, _)
Gcd(a, b) == IF b = 0 THEN a ELSE Gcd(b, a % b)

\* the rational n/d (d > 0) in lowest terms
Rat(n, d) == LET g == Gcd(Abs(n), d) IN [n |-> n \div g, d |-> d \div g]
RZero == [n |-> 0, d |-> 1]
ROne == [n |-> 1, d |-> 1]
RLe(a, b) == a.n * b.d <= b.n * a.d
RLt(a, b) == a.n * b.d < b.n * a.d
RAdd(a, b) ==
    LET l == (a.d \div Gcd(a.d, b.d)) * b.d
    IN Rat(a.n * (l \div a.d) + b.n * (l \div b.d), l)
RNeg(a) == [n |-> 0 - a.n, d |-> a.d]
RMin(a, b) == IF RLe(a, b) THEN a ELSE b
RMax(a, b) == IF RLe(a, b) THEN b ELSE a
\* hundredths as a rational
Pct(h) == Rat(h, 100)

Max(a, b) == IF a >= b THEN a ELSE b
Min(a, b) == IF a <= b THEN a ELSE b

\* list.append followed by "if len(list) > cap: list.pop(0)"
Push(s, x, cap) ==
    LET t == Append(s, x) IN IF Len(t) > cap THEN Tail(t) ELSE t

\* s[-k:]
LastN(s, k) ==
    IF Len(s) <= k THEN s ELSE SubSeq(s, Len(s) - k + 1, Len(s))

\* s[:k]
FirstN(s, k) == IF Len(s) <= k THEN s ELSE SubSeq(s, 1, k)

\* dict[k] = v
Put(d, k, v) == [x \in (DOMAIN d) \cup {k} |-> IF x = k THEN v ELSE d[x]]
EmptyDict == [x \in {} |-> 0]

RECURSIVE SumRuns(_)
SumRuns(s) == IF s = <<>> THEN 0 ELSE s[1].runs_total + SumRuns(Tail(s))

RECURSIVE CountWickets(_)
CountWickets(s) ==
    IF s = <<>> THEN 0
    ELSE (IF s[1].is_wicket THEN 1 ELSE 0) + CountWickets(Tail(s))

\* number of trailing entries of s equal to x
RECURSIVE TrailingCount(_, _)
TrailingCount(s, x) ==
    IF s = <<>> \/ s[Len(s)] # x THEN 0
    ELSE 1 + TrailingCount(SubSeq(s, 1, Len(s) - 1), x)

\* str(n) for the run counts a delivery can carry
str(n) == IF n \in 0..9 THEN <<"0", "1", "2", "3", "4", "5", "6", "7", "8", "9">>[n + 1]
          ELSE "many"

\* str(m) for the milestones
milestone_str(m) ==
    CASE m = 50 -> "50" [] m = 100 -> "100" [] m = 150 -> "150" [] m = 200 -> "200"

\* ------------------------------------------------------------------ events

Batters == {"b1", "b2", "b3"}
Bowlers == {"w1", "w2"}
Formats == {"Test", "ODI", "T20", "T20I"}

\* What one delivery yields: runs off the bat, total runs, wicket or not.
Dot    == [runs_batter |-> 0, runs_total |-> 0, is_wicket |-> FALSE, extras_type |-> None]
Single == [runs_batter |-> 1, runs_total |-> 1, is_wicket |-> FALSE, extras_type |-> None]
Double == [runs_batter |-> 2, runs_total |-> 2, is_wicket |-> FALSE, extras_type |-> None]
Four   == [runs_batter |-> 4, runs_total |-> 4, is_wicket |-> FALSE, extras_type |-> None]
Wide   == [runs_batter |-> 0, runs_total |-> 1, is_wicket |-> FALSE,
           extras_type |-> Some("wide")]
Wicket == [runs_batter |-> 0, runs_total |-> 0, is_wicket |-> TRUE, extras_type |-> None]
Kinds == {Dot, Single, Four, Wide, Wicket}

\* CricsheetParser.parse_innings: one CricketEvent per delivery; ball numbers
\* are unique and increasing in an innings (modelled by the delivery's index),
\* and is_boundary is derived from the runs off the bat.
CricketEvent(ball, batter, bowler, non_striker, k) ==
    [ball_number |-> ball, batter |-> batter, bowler |-> bowler,
     non_striker |-> non_striker,
     runs_batter |-> k.runs_batter, runs_total |-> k.runs_total,
     is_boundary |-> k.runs_batter \in {4, 6}, is_wicket |-> k.is_wicket,
     extras_type |-> k.extras_type]

\* ------------------------------------------------------- NarrativeTracker

NewTracker ==
    [storyline_events |-> <<>>,
     current_momentum |-> "BALANCED",
     momentum_shift_ball |-> None,
     active_subplots |-> <<>>,
     consecutive_boundaries |-> 0,
     consecutive_dots |-> 0,
     wickets_in_spell |-> 0,
     runs_since_wicket |-> 0,
     current_spell_bowler |-> None]

\* ---------------------------------------------------------- ContextBuilder

\* ContextBuilder.__init__
NewBuilder(fmt, rag, stats) ==
    [format |-> fmt,
     rag_retriever |-> rag,
     stats_engine |-> stats,
     tracker |-> NewTracker,
     innings_number |-> 1,
     total_runs |-> 0,
     total_wickets |-> 0,
     overs_completed |-> 0,
     target |-> None,
     batter_stats |-> EmptyDict,
     current_striker |-> None,
     current_non_striker |-> None,
     bowler_stats |-> EmptyDict,
     current_bowler |-> None,
     partnership_runs |-> 0,
     partnership_balls |-> 0,
     partnership_batter1 |-> None,
     partnership_batter2 |-> None,
     recent_events |-> <<>>,
     balls_since_boundary |-> 0,
     balls_since_wicket |-> 0,
     wickets_last_5_overs |-> 0,
     boundaries_last_5_overs |-> 0,
     runs_last_5_overs |-> 0,
     balls_in_innings |-> 0,
     recent_phrases |-> <<>>]

NewBatterStats == [runs |-> 0, balls |-> 0, fours |-> 0, sixes |-> 0, recent |-> <<>>]

update_batter_stats(b, e) ==
    LET old == IF e.batter \in DOMAIN b.batter_stats
               THEN b.batter_stats[e.batter] ELSE NewBatterStats
        new == [runs   |-> old.runs + e.runs_batter,
                balls  |-> old.balls + 1,
                fours  |-> IF e.runs_batter = 4 THEN old.fours + 1 ELSE old.fours,
                sixes  |-> IF e.runs_batter = 6 THEN old.sixes + 1 ELSE old.sixes,
                recent |-> Push(old.recent, e.runs_batter, RecentSize)]
    IN [b EXCEPT !.batter_stats = Put(@, e.batter, new),
                 !.current_striker = Some(e.batter)]

NewBowlerStats ==
    [overs |-> 0, maidens |-> 0, runs |-> 0, wickets |-> 0,
     balls_this_over |-> 0, runs_this_over |-> 0,
     spell_overs |-> 0, spell_wickets |-> 0, spell_runs |-> 0, recent |-> <<>>]

\* the symbol appended to the bowler's recent deliveries
DeliverySymbol(e) ==
    IF e.is_wicket THEN "W"
    ELSE IF e.runs_batter = 4 THEN "4"
    ELSE IF e.runs_batter = 6 THEN "6"
    ELSE IF e.runs_total = 0 THEN "."
    ELSE str(e.runs_total)

update_bowler_stats(b, e) ==
    LET old == IF e.bowler \in DOMAIN b.bowler_stats
               THEN b.bowler_stats[e.bowler] ELSE NewBowlerStats
        s1 == [old EXCEPT
                 !.runs = @ + e.runs_total,
                 !.balls_this_over = @ + 1,
                 !.runs_this_over = @ + e.runs_total,
                 !.spell_runs = @ + e.runs_total,
                 !.wickets = IF e.is_wicket THEN @ + 1 ELSE @,
                 !.spell_wickets = IF e.is_wicket THEN @ + 1 ELSE @,
                 !.recent = Push(@, DeliverySymbol(e), RecentSize)]
        s2 == IF s1.balls_this_over = 6
              THEN [s1 EXCEPT
                      !.overs = @ + 1,
                      !.spell_overs = @ + 1,
                      !.maidens = IF s1.runs_this_over = 0 THEN @ + 1 ELSE @,
                      !.balls_this_over = 0,
                      !.runs_this_over = 0]
              ELSE s1
    IN [b EXCEPT !.bowler_stats = Put(@, e.bowler, s2),
                 !.current_bowler = Some(e.bowler)]

reset_partnership(b, e) ==
    [b EXCEPT !.partnership_runs = 0,
              !.partnership_balls = 0,
              !.partnership_batter1 = Some(e.non_striker),
              !.partnership_batter2 = None]

\* "Track recent events" and "Update 5-over window stats" of _update_state
update_window(b, e) ==
    LET appended == Append(b.recent_events, e)
        kept == IF Len(appended) > WindowSize THEN Tail(appended) ELSE appended
        runs == b.runs_last_5_overs + e.runs_total
        over == Len(kept) > WindowSize
        oldest == kept[1]
    IN [b EXCEPT
          !.recent_events = kept,
          !.runs_last_5_overs = IF over THEN runs - oldest.runs_total ELSE runs,
          !.wickets_last_5_overs =
              IF over /\ oldest.is_wicket THEN Max(0, @ - 1) ELSE @,
          !.boundaries_last_5_overs =
              IF over /\ oldest.is_boundary THEN Max(0, @ - 1) ELSE @]

\* A variant of the totals update that stores the event's runs instead of
\* adding them.
update_totals_overwrite(b, e) ==
    LET balls == b.balls_in_innings + 1
    IN [b EXCEPT !.total_runs = e.runs_total,
                 !.balls_in_innings = balls,
                 !.overs_completed = 10 * (balls \div 6) + (balls % 6)]

\* "Update match totals" and "Calculate overs" of _update_state
update_totals(b, e) ==
    LET balls == b.balls_in_innings + 1
    IN [b EXCEPT !.total_runs = @ + e.runs_total,
                 !.balls_in_innings = balls,
                 !.overs_completed = 10 * (balls \div 6) + (balls % 6)]

\* "Update boundary/wicket tracking" of _update_state, the boundary half
update_boundary_tracking(b, e) ==
    IF e.is_boundary
    THEN [b EXCEPT !.balls_since_boundary = 0,
                   !.boundaries_last_5_overs = @ + 1]
    ELSE [b EXCEPT !.balls_since_boundary = @ + 1]

\* A variant of the wicket tracking that counts a wicket only while a
\* partnership has begun.
update_wicket_tracking_skip(b, e) ==
    IF e.is_wicket
    THEN reset_partnership([b EXCEPT !.total_wickets =
                                         IF b.partnership_balls = 0 THEN @ ELSE @ + 1,
                                     !.balls_since_wicket = 0,
                                     !.wickets_last_5_overs = @ + 1], e)
    ELSE [b EXCEPT !.balls_since_wicket = @ + 1]

\* "Update boundary/wicket tracking" of _update_state, the wicket half
update_wicket_tracking(b, e) ==
    IF e.is_wicket
    THEN reset_partnership([b EXCEPT !.total_wickets = @ + 1,
                                     !.balls_since_wicket = 0,
                                     !.wickets_last_5_overs = @ + 1], e)
    ELSE [b EXCEPT !.balls_since_wicket = @ + 1]

\* "Update partnership" of _update_state
update_partnership(b, e) ==
    [b EXCEPT !.partnership_runs = @ + e.runs_batter,
              !.partnership_balls = @ + 1]

\* A variant of the state update with a duplicate guard: an event equal to
\* the one processed last is not counted again.
update_state_guarded(b, e) ==
    IF b.recent_events # <<>> /\ b.recent_events[Len(b.recent_events)] = e
    THEN b
    ELSE update_window(
             update_partnership(
                 update_bowler_stats(
                     update_batter_stats(
                         update_wicket_tracking(
                             update_boundary_tracking(
                                 update_totals(b, e), e), e), e), e), e), e)

update_state(b, e) ==
    update_window(
        update_partnership(
            update_bowler_stats(
                update_batter_stats(
                    update_wicket_tracking(
                        update_boundary_tracking(
                            update_totals(b, e), e), e), e), e), e), e)

\* ------------------------------------------------------ snapshot (models.py)

\* BatterContext.is_new_batter
is_new_batter(bc) == bc.balls_faced < NewBatterBalls

\* MatchSituation.is_chase
is_chase(m) == m.target # None

\* MatchSituation.wickets_in_hand
wickets_in_hand(m) == MaxWickets - m.total_wickets

\* ------------------------------------------------- ContextBuilder, the views

\* A variant of the over limit that gives a T20I match the 20 overs of T20.
get_total_overs_t20i(b) ==
    IF b.format \in {"T20", "T20I"} THEN Some(20)
    ELSE IF b.format = "ODI" THEN Some(50)
    ELSE None

get_total_overs(b) ==
    IF b.format = "T20" THEN Some(20)
    ELSE IF b.format = "ODI" THEN Some(50)
    ELSE None

\* A variant of the phase detection whose over thresholds are exclusive.
detect_phase_strict(b) ==
    IF b.format = "T20"
    THEN (IF b.overs_completed < 60 THEN "POWERPLAY"
          ELSE IF b.overs_completed < 150 THEN "MIDDLE_OVERS"
          ELSE "DEATH_OVERS")
    ELSE IF b.format = "ODI"
    THEN (IF b.overs_completed < 100 THEN "POWERPLAY"
          ELSE IF b.overs_completed < 400 THEN "MIDDLE_OVERS"
          ELSE "DEATH_OVERS")
    ELSE (IF b.balls_in_innings < 180 THEN "EARLY_INNINGS"
          ELSE IF b.balls_in_innings < 360 THEN "MIDDLE_INNINGS"
          ELSE "LATE_INNINGS")

detect_phase(b) ==
    IF b.format = "T20"
    THEN (IF b.overs_completed <= 60 THEN "POWERPLAY"
          ELSE IF b.overs_completed <= 150 THEN "MIDDLE_OVERS"
          ELSE "DEATH_OVERS")
    ELSE IF b.format = "ODI"
    THEN (IF b.overs_completed <= 100 THEN "POWERPLAY"
          ELSE IF b.overs_completed <= 400 THEN "MIDDLE_OVERS"
          ELSE "DEATH_OVERS")
    ELSE (IF b.balls_in_innings < 180 THEN "EARLY_INNINGS"
          ELSE IF b.balls_in_innings < 360 THEN "MIDDLE_INNINGS"
          ELSE "LATE_INNINGS")

\* The teams of the snapshot are copied from the event's match_context, which
\* the events of this model do not carry.
build_match_situation(b, e) ==
    LET current_rr == IF b.overs_completed > 0
                      THEN Rat(10 * b.total_runs, b.overs_completed) ELSE RZero
        chasing == b.target # None
        runs_required == IF chasing THEN Some(Val(b.target) - b.total_runs) ELSE None
        total_overs == get_total_overs(b)
        balls_remaining ==
            IF chasing /\ total_overs # None
            THEN Some(Val(total_overs) * 6 - b.balls_in_innings) ELSE None
        required_rate ==
            IF balls_remaining # None /\ Val(balls_remaining) > 0
            THEN Some(Rat(6 * Val(runs_required), Val(balls_remaining))) ELSE None
    IN [innings_number |-> b.innings_number,
        total_runs |-> b.total_runs,
        total_wickets |-> b.total_wickets,
        overs_completed |-> b.overs_completed,
        balls_remaining |-> balls_remaining,
        target |-> b.target,
        runs_required |-> runs_required,
        required_rate |-> required_rate,
        current_run_rate |-> current_rr,
        phase |-> detect_phase(b),
        match_format |-> b.format]

Milestones == <<50, 100, 150, 200>>

\* A variant of the milestone test that also flags the threshold the batter
\* stands on.
milestone_for_inclusive(runs) ==
    LET hits == {i \in 1..Len(Milestones) :
                    runs <= Milestones[i] /\ Milestones[i] <= runs + MilestoneWindow}
    IN IF hits = {} THEN None
       ELSE Some(Milestones[CHOOSE i \in hits : \A j \in hits : i <= j])

\* the first m of Milestones with runs < m <= runs + 15, or None
milestone_for(runs) ==
    LET hits == {i \in 1..Len(Milestones) :
                    runs < Milestones[i] /\ Milestones[i] <= runs + MilestoneWindow}
    IN IF hits = {} THEN None
       ELSE Some(Milestones[CHOOSE i \in hits : \A j \in hits : i <= j])

build_batter_context(b, e) ==
    LET stats == IF e.batter \in DOMAIN b.batter_stats
                 THEN b.batter_stats[e.batter] ELSE NewBatterStats
        m == milestone_for(stats.runs)
    IN [name |-> e.batter,
        runs_scored |-> stats.runs,
        balls_faced |-> stats.balls,
        fours |-> stats.fours,
        sixes |-> stats.sixes,
        strike_rate |-> IF stats.balls > 0
                        THEN Rat(100 * stats.runs, stats.balls) ELSE RZero,
        is_on_strike |-> TRUE,
        approaching_milestone |-> IF m = None THEN None ELSE Some(milestone_str(Val(m))),
        balls_to_milestone |-> IF m = None THEN None ELSE Some(Val(m) - stats.runs),
        recent_scoring |-> LastN(stats.recent, 6),
        dot_ball_pressure |-> TrailingCount(stats.recent, 0)]

\* overs_bowled and current_spell_overs are in tenths of an over, as
\* overs_completed is.
build_bowler_context(b, e) ==
    LET stats == IF e.bowler \in DOMAIN b.bowler_stats
                 THEN b.bowler_stats[e.bowler] ELSE NewBowlerStats
        recent == stats.recent
        n == Len(recent)
    IN [name |-> e.bowler,
        overs_bowled |-> 10 * stats.overs + stats.balls_this_over,
        maidens |-> stats.maidens,
        runs_conceded |-> stats.runs,
        wickets |-> stats.wickets,
        economy |-> IF stats.overs > 0 THEN Rat(stats.runs, stats.overs) ELSE RZero,
        current_spell_overs |-> 10 * stats.spell_overs + stats.balls_this_over,
        current_spell_wickets |-> stats.spell_wickets,
        current_spell_runs |-> stats.spell_runs,
        recent_deliveries |-> LastN(recent, 6),
        is_on_hat_trick |-> n >= 2 /\ recent[n] = "W" /\ recent[n - 1] = "W",
        consecutive_dots |-> TrailingCount(recent, ".")]

\* "x or ''" of an optional name
OrEmpty(o) == IF o = None THEN "" ELSE Val(o)

build_partnership_context(b) ==
    LET run_rate == IF b.partnership_balls > 0
                    THEN Rat(6 * b.partnership_runs, b.partnership_balls) ELSE RZero
    IN [runs |-> b.partnership_runs,
        balls |-> b.partnership_balls,
        batter1_name |-> OrEmpty(b.partnership_batter1),
        batter1_contribution |-> 0,
        batter2_name |-> OrEmpty(b.partnership_batter2),
        batter2_contribution |-> 0,
        run_rate |-> run_rate,
        is_rebuilding |-> b.wickets_last_5_overs >= 2 /\ b.partnership_runs < 30,
        is_dominant |-> b.partnership_runs >= 50 /\ RLe(Rat(6, 1), run_rate)]

\* the last wicket of the window: (batter, bowler), or None
last_wicket(events) ==
    LET idx == {i \in 1..Len(events) : events[i].is_wicket}
    IN IF idx = {} THEN None
       ELSE LET i == CHOOSE i \in idx : \A j \in idx : j <= i
            IN Some(<<events[i].batter, events[i].bowler>>)

SummarySymbol(e) ==
    IF e.is_wicket THEN "W" ELSE IF e.runs_total > 0 THEN str(e.runs_total) ELSE "."

build_recent_events(b, e) ==
    LET last6 == LastN(b.recent_events, 6)
    IN [last_6_balls |-> last6,
        last_over_summary |-> [i \in 1..Len(last6) |-> SummarySymbol(last6[i])],
        wickets_in_last_5_overs |-> b.wickets_last_5_overs,
        boundaries_in_last_5_overs |-> b.boundaries_last_5_overs,
        runs_in_last_5_overs |-> b.runs_last_5_overs,
        last_wicket_description |-> last_wicket(b.recent_events),
        balls_since_last_boundary |-> b.balls_since_boundary,
        balls_since_last_wicket |-> b.balls_since_wicket]

determine_tone(e, pressure_level) ==
    IF e.is_wicket THEN "dramatic"
    ELSE IF e.runs_batter = 6 THEN "excited"
    ELSE IF e.runs_batter = 4 THEN "enthusiastic"
    ELSE IF pressure_level \in {"CRITICAL", "INTENSE"} THEN "tense"
    ELSE IF pressure_level = "CALM" THEN "calm"
    ELSE "neutral"

determine_length(e) ==
    IF e.is_wicket THEN "long"
    ELSE IF e.is_boundary THEN "medium"
    ELSE IF e.runs_total = 0 THEN "short"
    ELSE "medium"

\* ------------------------------------------------------ PressureCalculator

\* PHASE_BASE_PRESSURE.get(phase, 0.3), in hundredths
phase_base_pressure(phase) ==
    CASE phase = "POWERPLAY" -> 30
      [] phase = "MIDDLE_OVERS" -> 20
      [] phase = "DEATH_OVERS" -> 50
      [] phase = "FIRST_SESSION" -> 30
      [] phase = "SECOND_SESSION" -> 25
      [] phase = "THIRD_SESSION" -> 40
      [] phase = "EARLY_INNINGS" -> 20
      [] phase = "MIDDLE_INNINGS" -> 30
      [] phase = "LATE_INNINGS" -> 50
      [] OTHER -> 30

\* LEVEL_THRESHOLDS, the thresholds in hundredths
LEVEL_THRESHOLDS ==
    << [threshold |-> 80, level |-> "CRITICAL"],
       [threshold |-> 60, level |-> "INTENSE"],
       [threshold |-> 40, level |-> "TENSE"],
       [threshold |-> 20, level |-> "BUILDING"],
       [threshold |-> 0, level |-> "CALM"] >>

\* "Required rate above current rate" of _calculate_chase_pressure
rate_gap_pressure(m) ==
    IF RLt(RZero, m.current_run_rate)
    THEN LET rr == Val(m.required_rate)
             cr == m.current_run_rate
             rate_diff == RAdd(rr, RNeg(cr))
         IN IF RLt(RZero, rate_diff)
            THEN RMin(Pct(30), Rat(rate_diff.n, 20 * rate_diff.d))
            ELSE IF RLt(rate_diff, Rat(-2, 1)) THEN Pct(-10)
            ELSE RZero
    ELSE RZero

\* "Balls remaining pressure" and "Very close finish", in hundredths
balls_remaining_pressure(m) ==
    IF m.balls_remaining # None /\ m.runs_required # None
    THEN (IF Val(m.balls_remaining) <= 30 THEN 30 - Val(m.balls_remaining) ELSE 0)
         + (IF Val(m.runs_required) <= 20 /\ Val(m.balls_remaining) <= 12
            THEN 20 ELSE 0)
    ELSE 0

\* "Wickets in hand vs runs needed", in hundredths:
\* runs_required / max(1, wickets_in_hand) > 30
runs_per_wicket_pressure(m) ==
    IF m.runs_required # None
       /\ Val(m.runs_required) > 30 * Max(1, wickets_in_hand(m))
    THEN 15 ELSE 0

calculate_chase_pressure(m) ==
    IF ~is_chase(m) \/ m.required_rate = None THEN RZero
    ELSE RAdd(rate_gap_pressure(m),
              Pct(balls_remaining_pressure(m) + runs_per_wicket_pressure(m)))

\* in hundredths
calculate_wickets_pressure(total_wickets, recent_wickets) ==
    (IF total_wickets >= 7 THEN 25
     ELSE IF total_wickets >= 5 THEN 15
     ELSE IF total_wickets >= 3 THEN 10
     ELSE 0)
    + (IF recent_wickets >= 3 THEN 20
       ELSE IF recent_wickets >= 2 THEN 10
       ELSE 0)

\* A variant of the level mapping that compares strictly.
score_to_level_strict(score) ==
    LET hits == {i \in 1..Len(LEVEL_THRESHOLDS) :
                    RLt(Pct(LEVEL_THRESHOLDS[i].threshold), score)}
    IN IF hits = {} THEN "CALM"
       ELSE LEVEL_THRESHOLDS[CHOOSE i \in hits : \A j \in hits : i <= j].level

\* _score_to_level: the level of the first threshold, in list order, that the
\* score reaches
score_to_level(score) ==
    LET hits == {i \in 1..Len(LEVEL_THRESHOLDS) :
                    RLe(Pct(LEVEL_THRESHOLDS[i].threshold), score)}
    IN IF hits = {} THEN "CALM"
       ELSE LEVEL_THRESHOLDS[CHOOSE i \in hits : \A j \in hits : i <= j].level

\* the score before "Clamp to 0-1 range"
raw_pressure(m, wickets_in_last_5_overs, new_batter, balls_since_boundary) ==
    LET chase == IF is_chase(m) /\ m.required_rate # None
                 THEN calculate_chase_pressure(m) ELSE RZero
        flat == phase_base_pressure(m.phase)
                + calculate_wickets_pressure(m.total_wickets, wickets_in_last_5_overs)
                + (IF balls_since_boundary > 12
                   THEN Min(15, balls_since_boundary - 12) ELSE 0)
                + (IF new_batter THEN 10 ELSE 0)
    IN RAdd(chase, Pct(flat))

\* A variant of the clamp without the upper limit.
clamp_below_only(score) == RMax(RZero, score)

\* "Clamp to 0-1 range"
clamp(score) == RMax(RZero, RMin(ROne, score))

calculate(m, wickets_in_last_5_overs, new_batter, balls_since_boundary) ==
    LET score == clamp(raw_pressure(m, wickets_in_last_5_overs, new_batter,
                                    balls_since_boundary))
    IN [level |-> score_to_level(score), score |-> score]

\* ------------------------------------------------------- NarrativeTracker

update_tracking(t, e) ==
    LET t1 == IF e.is_boundary
              THEN [t EXCEPT !.consecutive_boundaries = @ + 1,
                             !.consecutive_dots = 0]
              ELSE IF e.runs_total = 0 /\ ~e.is_wicket
              THEN [t EXCEPT !.consecutive_dots = @ + 1,
                             !.consecutive_boundaries = 0]
              ELSE [t EXCEPT !.consecutive_boundaries = 0,
                             !.consecutive_dots = 0]
        t2 == IF e.is_wicket
              THEN [t1 EXCEPT
                      !.runs_since_wicket = 0,
                      !.wickets_in_spell = @ + 1,
                      !.storyline_events =
                          Append(@, [ball_number |-> e.ball_number,
                                     description |-> <<e.batter, e.bowler>>,
                                     event_type |-> "wicket",
                                     player |-> e.bowler,
                                     significance |-> 70])]
              ELSE [t1 EXCEPT !.runs_since_wicket = @ + e.runs_total]
    IN IF Some(e.bowler) # t2.current_spell_bowler
       THEN [t2 EXCEPT !.current_spell_bowler = Some(e.bowler),
                       !.wickets_in_spell = 0]
       ELSE t2

\* A variant of the cascade that looks at the wickets in the spell before
\* the boundary spree.
detect_momentum_wickets_first(t, e) ==
    IF t.wickets_in_spell >= 2 THEN "BOWLING_DOMINANT"
    ELSE IF t.consecutive_boundaries >= 3 THEN "BATTING_DOMINANT"
    ELSE IF t.consecutive_dots >= 6 THEN "BOWLING_DOMINANT"
    ELSE IF t.runs_since_wicket >= 50 THEN "BATTING_DOMINANT"
    ELSE IF e.is_wicket THEN "MOMENTUM_SHIFT"
    ELSE "BALANCED"

\* A variant of the cascade that looks at the wicket first.
detect_momentum_shift_first(t, e) ==
    IF e.is_wicket THEN "MOMENTUM_SHIFT"
    ELSE IF t.consecutive_boundaries >= 3 THEN "BATTING_DOMINANT"
    ELSE IF t.consecutive_dots >= 6 THEN "BOWLING_DOMINANT"
    ELSE IF t.wickets_in_spell >= 2 THEN "BOWLING_DOMINANT"
    ELSE IF t.runs_since_wicket >= 50 THEN "BATTING_DOMINANT"
    ELSE "BALANCED"

\* A variant of the cascade that looks at the runs since the last wicket
\* before the dot balls.
detect_momentum_runs_first(t, e) ==
    IF t.consecutive_boundaries >= 3 THEN "BATTING_DOMINANT"
    ELSE IF t.runs_since_wicket >= 50 THEN "BATTING_DOMINANT"
    ELSE IF t.consecutive_dots >= 6 THEN "BOWLING_DOMINANT"
    ELSE IF t.wickets_in_spell >= 2 THEN "BOWLING_DOMINANT"
    ELSE IF e.is_wicket THEN "MOMENTUM_SHIFT"
    ELSE "BALANCED"

detect_momentum(t, e) ==
    IF t.consecutive_boundaries >= 3 THEN "BATTING_DOMINANT"
    ELSE IF t.consecutive_dots >= 6 THEN "BOWLING_DOMINANT"
    ELSE IF t.wickets_in_spell >= 2 THEN "BOWLING_DOMINANT"
    ELSE IF t.runs_since_wicket >= 50 THEN "BATTING_DOMINANT"
    ELSE IF e.is_wicket THEN "MOMENTUM_SHIFT"
    ELSE "BALANCED"

\* a formatted line of the narrative: its template, the player and the number
\* it is filled with
Line(kind, player, n) == [kind |-> kind, player |-> player, n |-> n]

identify_subplots(t, e, batter_runs, batter_balls, bowler_wickets, partnership_runs) ==
    LET hits == {i \in 1..Len(Milestones) :
                    Milestones[i] - 10 <= batter_runs /\ batter_runs < Milestones[i]}
        first == Milestones[CHOOSE i \in hits : \A j \in hits : i <= j]
    IN (IF hits # {} THEN <<Line("away_from_milestone", e.batter, first - batter_runs)>>
        ELSE <<>>)
       \o (IF bowler_wickets >= 3
           THEN <<Line("devastating_spell", e.bowler, bowler_wickets)>>
           ELSE IF t.wickets_in_spell >= 2
           THEN <<Line("on_a_roll", e.bowler, 0)>>
           ELSE <<>>)
       \o (IF partnership_runs >= 50
           THEN <<Line("partnership_building", "", partnership_runs)>> ELSE <<>>)
       \o (IF batter_balls < 10
           THEN <<Line("settle_in", e.batter, 0)>> ELSE <<>>)
       \o (IF batter_balls >= 20 /\ 2 * batter_runs > 3 * batter_balls
           THEN <<Line("imperious_form", e.batter, 0)>> ELSE <<>>)

build_storyline(t, e) ==
    IF e.is_wicket
    THEN (IF t.wickets_in_spell >= 2 THEN Line("wreaking_havoc", e.bowler, 0)
          ELSE Line("breakthrough", e.batter, 0))
    ELSE IF t.consecutive_boundaries >= 3 THEN Line("boundaries_flowing", e.batter, 0)
    ELSE IF t.consecutive_dots >= 6 THEN Line("dots_in_a_row", "", t.consecutive_dots)
    ELSE IF t.current_momentum = "BATTING_DOMINANT" THEN Line("batters_on_top", "", 0)
    ELSE IF t.current_momentum = "BOWLING_DOMINANT" THEN Line("bowlers_on_top", "", 0)
    ELSE Line("evenly_poised", "", 0)

assess_dramatic_potential(t, e, batter_runs, partnership_runs) ==
    LET potentials ==
            (IF 45 <= batter_runs /\ batter_runs < 50
             THEN <<Line("could_reach", e.batter, 50)>> ELSE <<>>)
         \o (IF 95 <= batter_runs /\ batter_runs < 100
             THEN <<Line("could_reach", e.batter, 100)>> ELSE <<>>)
         \o (IF 45 <= partnership_runs /\ partnership_runs < 50
             THEN <<Line("fifty_partnership", "", 0)>>
             ELSE IF 95 <= partnership_runs /\ partnership_runs < 100
             THEN <<Line("century_partnership", "", 0)>> ELSE <<>>)
         \o (IF t.wickets_in_spell >= 2 /\ e.is_wicket
             THEN <<Line("get_another", e.bowler, 0)>> ELSE <<>>)
         \o (IF t.consecutive_dots >= 6
             THEN <<Line("something_has_to_give", "", 0)>> ELSE <<>>)
    IN IF potentials = <<>> THEN None ELSE Some(potentials[1])

\* a callback string: where it comes from, the description it quotes and the
\* ball it refers to
Callback(source, description, ball) ==
    [source |-> source, description |-> description, ball_number |-> ball]

get_relevant_callbacks(t, e) ==
    LET Involved(se) == se.player \in {e.batter, e.bowler}
        chosen == SelectSeq(LastN(t.storyline_events, StorylineScan), Involved)
        callbacks == [i \in 1..Len(chosen) |->
                        Callback("own", chosen[i].description, chosen[i].ball_number)]
    IN FirstN(callbacks, OwnCallbackCap)

\* A variant of the tension without the term of the momentum shift.
calculate_tension_no_shift(t, e) ==
    Min(10, 3 + (IF e.is_wicket THEN 3 ELSE 0)
              + (IF t.consecutive_dots >= 6 THEN 2 ELSE 0))

\* in tenths
calculate_tension(t, e) ==
    Min(10, 3 + (IF e.is_wicket THEN 3 ELSE 0)
              + (IF t.consecutive_dots >= 6 THEN 2 ELSE 0)
              + (IF t.current_momentum = "MOMENTUM_SHIFT" THEN 2 ELSE 0))

\* A variant of update() that records the ball as the shift point on every
\* update.
update_marks_every_ball(t, e, batter_runs, batter_balls, bowler_wickets, partnership_runs) ==
    LET t1 == update_tracking(t, e)
        new_momentum == detect_momentum(t1, e)
        t2 == [t1 EXCEPT !.momentum_shift_ball = Some(e.ball_number),
                         !.current_momentum = new_momentum]
        subplots == identify_subplots(t2, e, batter_runs, batter_balls,
                                      bowler_wickets, partnership_runs)
        t3 == [t2 EXCEPT !.active_subplots = subplots]
    IN [tracker |-> t3,
        state |-> [current_storyline |-> build_storyline(t3, e),
                   tension_level |-> calculate_tension(t3, e),
                   momentum |-> t3.current_momentum,
                   key_subplot |-> IF subplots = <<>> THEN None ELSE Some(subplots[1]),
                   dramatic_potential |->
                       assess_dramatic_potential(t3, e, batter_runs, partnership_runs),
                   callbacks_available |-> get_relevant_callbacks(t3, e),
                   matchup_context |-> None]]

\* NarrativeTracker.update: the tracker after the call and the NarrativeState
\* it returns
update(t, e, batter_runs, batter_balls, bowler_wickets, partnership_runs) ==
    LET t1 == update_tracking(t, e)
        new_momentum == detect_momentum(t1, e)
        t2 == IF new_momentum # t1.current_momentum
              THEN [t1 EXCEPT !.momentum_shift_ball = Some(e.ball_number),
                              !.current_momentum = new_momentum]
              ELSE t1
        subplots == identify_subplots(t2, e, batter_runs, batter_balls,
                                      bowler_wickets, partnership_runs)
        t3 == [t2 EXCEPT !.active_subplots = subplots]
    IN [tracker |-> t3,
        state |-> [current_storyline |-> build_storyline(t3, e),
                   tension_level |-> calculate_tension(t3, e),
                   momentum |-> t3.current_momentum,
                   key_subplot |-> IF subplots = <<>> THEN None ELSE Some(subplots[1]),
                   dramatic_potential |->
                       assess_dramatic_potential(t3, e, batter_runs, partnership_runs),
                   callbacks_available |-> get_relevant_callbacks(t3, e),
                   matchup_context |-> None]]

\* ------------------------------------------------- ContextBuilder, methods

\* What a collaborator call does: stats_engine.get_head_to_head raises,
\* returns None, or returns a matchup over balls_faced balls;
\* rag_retriever.retrieve raises or returns a list of callbacks.
StatsRaises == [kind |-> "raise", balls_faced |-> 0]
StatsNothing == [kind |-> "none", balls_faced |-> 0]
StatsMatchup(n) == [kind |-> "matchup", balls_faced |-> n]
RagRaises == [kind |-> "raise", callbacks |-> <<>>]
RagReturns(cbs) == [kind |-> "ok", callbacks |-> cbs]

\* "Enhance with player matchup statistics": the exception is swallowed
enhance_with_stats(b, ns, so) ==
    IF b.stats_engine /\ so.kind = "matchup" /\ so.balls_faced >= MatchupMinBalls
    THEN [ns EXCEPT !.matchup_context = Some("head_to_head")]
    ELSE ns

\* A variant of the merge that puts the tracker's own callbacks first.
enhance_with_rag_own_first(b, ns, ro) ==
    IF b.rag_retriever /\ ro.kind = "ok"
    THEN [ns EXCEPT !.callbacks_available = FirstN(@ \o ro.callbacks, CallbackCap)]
    ELSE ns

\* "Enhance with RAG historical parallels": the exception is swallowed
enhance_with_rag(b, ns, ro) ==
    IF b.rag_retriever /\ ro.kind = "ok"
    THEN [ns EXCEPT !.callbacks_available = FirstN(ro.callbacks \o @, CallbackCap)]
    ELSE ns

\* A variant of build() without the handlers: a collaborator's exception
\* leaves the call.
build_raises_unhandled(b, so, ro) ==
    \/ b.stats_engine /\ so.kind = "raise"
    \/ b.rag_retriever /\ ro.kind = "raise"

\* Whether an exception leaves build(): both collaborator calls sit in a try
\* block whose handler is "except Exception: pass", so none does.
build_raises(b, so, ro) == FALSE

\* the end of build(): the RichContext it returns, with the builder as the
\* call leaves it
rich_context(b1, e, so, ro, match_situation, batter_context, pressure, nar) ==
    [builder |-> [b1 EXCEPT !.tracker = nar.tracker],
     raised |-> build_raises(b1, so, ro),
     ctx |-> [event |-> e,
              match |-> match_situation,
              batter |-> batter_context,
              bowler |-> build_bowler_context(b1, e),
              partnership |-> build_partnership_context(b1),
              recent |-> build_recent_events(b1, e),
              narrative |-> enhance_with_rag(b1, enhance_with_stats(b1, nar.state, so), ro),
              pressure |-> pressure.level,
              pressure_score |-> pressure.score,
              suggested_tone |-> determine_tone(e, pressure.level),
              suggested_length |-> determine_length(e),
              avoid_phrases |-> LastN(b1.recent_phrases, AvoidCount)]]

\* self._batter_stats.get(event.batter, {}).get(key, 0), and the same of
\* _bowler_stats
stat_of(stats, player, key) ==
    IF player \in DOMAIN stats THEN stats[player][key] ELSE 0

\* "Calculate pressure" and "Update narrative" of build()
build_narrative(b1, e, so, ro, match_situation, batter_context) ==
    rich_context(b1, e, so, ro, match_situation, batter_context,
                 calculate(match_situation, b1.wickets_last_5_overs,
                           is_new_batter(batter_context), b1.balls_since_boundary),
                 update(b1.tracker, e,
                        stat_of(b1.batter_stats, e.batter, "runs"),
                        stat_of(b1.batter_stats, e.batter, "balls"),
                        stat_of(b1.bowler_stats, e.bowler, "wickets"),
                        b1.partnership_runs))

\* "Build context components" of build(), on the updated builder
build_components(b1, e, so, ro) ==
    build_narrative(b1, e, so, ro,
                    build_match_situation(b1, e), build_batter_context(b1, e))

\* ContextBuilder.build: the builder after the call and the RichContext it
\* returns, given what the collaborators do when called
build(b, e, so, ro) == build_components(update_state(b, e), e, so, ro)

\* A variant of the snapshot's lists in which the batter's recent scoring is
\* the builder's own list, not a slice of it.
snapshot_lists_shared ==
    [recent_scoring |-> [sliced |-> FALSE, of |-> "batter_recent"],
     recent_deliveries |-> [sliced |-> TRUE, of |-> "bowler_recent"],
     last_6_balls |-> [sliced |-> TRUE, of |-> "recent_events"],
     avoid_phrases |-> [sliced |-> TRUE, of |-> "recent_phrases"],
     callbacks_available |-> [sliced |-> TRUE, of |-> "callbacks"]]

\* The list objects a RichContext holds. Each is made by a slice, which is a
\* new list: stats.get("recent", [])[-6:], recent[-6:],
\* self._recent_events[-6:], self._recent_phrases[-5:], and callbacks[:3] or
\* (historical_callbacks + callbacks_available)[:5] of a list local to the call.
snapshot_lists ==
    [recent_scoring |-> [sliced |-> TRUE, of |-> "batter_recent"],
     recent_deliveries |-> [sliced |-> TRUE, of |-> "bowler_recent"],
     last_6_balls |-> [sliced |-> TRUE, of |-> "recent_events"],
     avoid_phrases |-> [sliced |-> TRUE, of |-> "recent_phrases"],
     callbacks_available |-> [sliced |-> TRUE, of |-> "callbacks"]]

\* The list of builder b that a field of snapshot c was taken from, as b
\* holds it now: the builder appends to, pops from and clears its lists in
\* place. None when b holds no such list: the list was local to build(), or
\* new_innings() dropped the player's entry, which leaves the list as it was.
internal_list(b, c, of) ==
    CASE of = "batter_recent" ->
            IF c.batter.name \in DOMAIN b.batter_stats
            THEN Some(b.batter_stats[c.batter.name].recent) ELSE None
      [] of = "bowler_recent" ->
            IF c.bowler.name \in DOMAIN b.bowler_stats
            THEN Some(b.bowler_stats[c.bowler.name].recent) ELSE None
      [] of = "recent_events" -> Some(b.recent_events)
      [] of = "recent_phrases" -> Some(b.recent_phrases)
      [] OTHER -> None

\* what a caller reads in a list field of snapshot c it got earlier, the
\* builder being b by now: a list that is not a slice is the builder's own
read_list(b, c, field, value) ==
    IF ~snapshot_lists[field].sliced
       /\ internal_list(b, c, snapshot_lists[field].of) # None
    THEN Val(internal_list(b, c, snapshot_lists[field].of))
    ELSE value

\* the snapshot c as its holder reads it while the builder is b
read_snapshot(b, c) ==
    [c EXCEPT
       !.batter.recent_scoring = read_list(b, c, "recent_scoring", @),
       !.bowler.recent_deliveries = read_list(b, c, "recent_deliveries", @),
       !.recent.last_6_balls = read_list(b, c, "last_6_balls", @),
       !.avoid_phrases = read_list(b, c, "avoid_phrases", @),
       !.narrative.callbacks_available = read_list(b, c, "callbacks_available", @)]

set_target(b, target) == [b EXCEPT !.target = Some(target)]

new_innings(b, innings_number) ==
    [b EXCEPT !.innings_number = innings_number,
              !.total_runs = 0,
              !.total_wickets = 0,
              !.overs_completed = 0,
              !.balls_in_innings = 0,
              !.batter_stats = EmptyDict,
              !.bowler_stats = EmptyDict,
              !.partnership_runs = 0,
              !.partnership_balls = 0,
              !.recent_events = <<>>,
              !.balls_since_boundary = 0,
              !.balls_since_wicket = 0,
              !.wickets_last_5_overs = 0,
              !.boundaries_last_5_overs = 0,
              !.runs_last_5_overs = 0]

add_phrase_to_avoid(b, phrase) ==
    [b EXCEPT !.recent_phrases = Push(@, phrase, PhraseCap)]

\* ------------------------------------------------------------------- state

VARIABLES
    builder,    \* the ContextBuilder
    ctx,        \* the RichContext the last build() returned; None before the
                \* first call and when the call raised
    raised,     \* whether the last build() raised
    hist,       \* the events passed to build() in the current innings, in order
    collab,     \* what the collaborators did in the last build()
    filler,     \* what every delivery after the free ones yields
    fresh,      \* once new_innings(n) was called: a ContextBuilder constructed
                \* at that moment with innings number n, given the same calls
    freshCtx,   \* the RichContext fresh's last build() returned
    pres,       \* a direct PressureCalculator.calculate call: its arguments
                \* and what it returned
    drv         \* the caller driving the builder: the route or the demo loop

vars == <<builder, ctx, raised, hist, collab, filler, fresh, freshCtx, pres, drv>>

\* ------------------------------------------------- the environment's events

\* who bats and bowls in a delivery
Side1 == [batter |-> "b1", bowler |-> "w1", non_striker |-> "b2"]
Side2 == [batter |-> "b2", bowler |-> "w2", non_striker |-> "b1"]
Sides == {Side1, Side2}

Event(ball, s, k) == CricketEvent(ball, s.batter, s.bowler, s.non_striker, k)

FreeKinds == {Dot, Single, Four, Wicket}
FillerKinds == {Dot, Single, Wicket}

\* the deliveries that can come next in the long innings: any of the free
\* ones while the innings is young, the filler afterwards
NextEvents ==
    LET ball == Len(hist) + 1
    IN IF Len(hist) < FreeBalls
       THEN {Event(ball, s, k) : s \in Sides, k \in FreeKinds}
       ELSE {Event(ball, Side1, filler)}

\* the deliveries of the short innings
ShortEvents(ball) ==
    {Event(ball, Side1, Single), Event(ball, Side1, Wicket),
     Event(ball, Side2, Four), Event(ball, Side2, Dot)}

\* A valid innings has at most ten wickets.
ValidNext(e) == e.is_wicket => CountWickets(hist) < MaxWickets

NoCollab == [stats |-> StatsNothing, rag |-> RagReturns(<<>>)]
Idle == [kind |-> "idle", pc |-> "idle", parsed |-> <<>>]

\* ----------------------------------------------------------------- actions

\* the caller passes event e to build() and the collaborators do so and ro;
\* afterwards the caller reports the phrase it generated, if it has one
BuildThen(e, so, ro, phrase) ==
    LET r == build(builder, e, so, ro)
    IN /\ ValidNext(e)
       /\ builder' = IF phrase = None THEN r.builder
                     ELSE add_phrase_to_avoid(r.builder, Val(phrase))
       /\ ctx' = IF r.raised THEN None ELSE Some(r.ctx)
       /\ raised' = r.raised
       /\ hist' = Append(hist, e)
       /\ collab' = [stats |-> so, rag |-> ro]
       /\ IF fresh = None
          THEN UNCHANGED <<fresh, freshCtx>>
          ELSE LET f == build(Val(fresh), e, so, ro)
               IN /\ fresh' = Some(f.builder)
                  /\ freshCtx' = IF f.raised THEN None ELSE Some(f.ctx)

Build(e, so, ro) == BuildThen(e, so, ro, None)

\* the next delivery of a single innings, driven through a builder that has
\* no collaborators (ContextBuilder(match_info))
NextBall ==
    /\ Len(hist) < MaxBalls
    /\ \E e \in NextEvents : Build(e, StatsNothing, RagReturns(<<>>))
    /\ UNCHANGED <<filler, pres, drv>>

\* set_target() before the first ball of an innings
SetTarget ==
    /\ hist = <<>>
    /\ \E t \in {30} :
          /\ builder' = set_target(builder, t)
          /\ fresh' = IF fresh = None THEN None ELSE Some(set_target(Val(fresh), t))
    /\ UNCHANGED <<ctx, raised, hist, collab, filler, freshCtx, pres, drv>>

InitWith(b, d) ==
    /\ builder = b
    /\ ctx = None
    /\ raised = FALSE
    /\ hist = <<>>
    /\ collab = NoCollab
    /\ fresh = None
    /\ freshCtx = None
    /\ pres = None
    /\ drv = d

Init ==
    /\ InitWith(NewBuilder("T20", FALSE, FALSE), Idle)
    /\ filler \in FillerKinds

Next == NextBall \/ SetTarget

Spec == Init /\ [][Next]_vars

\* ------------------------------- PressureCalculator.calculate called directly

PressurePhases == {"POWERPLAY", "MIDDLE_OVERS", "DEATH_OVERS", "SECOND_SESSION"}

\* a MatchSituation given to calculate() directly; the fields are free of each
\* other, as the dataclass lets them be
Situation(phase, total_wickets, chase) ==
    [innings_number |-> 2,
     total_runs |-> 0,
     total_wickets |-> total_wickets,
     overs_completed |-> 0,
     balls_remaining |-> chase.balls_remaining,
     target |-> chase.target,
     runs_required |-> chase.runs_required,
     required_rate |-> chase.required_rate,
     current_run_rate |-> chase.current_run_rate,
     phase |-> phase,
     match_format |-> "T20"]

NoChase ==
    [target |-> None, runs_required |-> None, balls_remaining |-> None,
     required_rate |-> None, current_run_rate |-> Rat(6, 1)]

Chases ==
    {NoChase} \cup
    {[target |-> Some(400), runs_required |-> Some(rq), balls_remaining |-> br,
      required_rate |-> rr, current_run_rate |-> cr] :
        rq \in {15, 40, 400},
        br \in {None, Some(6), Some(30), Some(60)},
        rr \in {None, Some(Rat(3, 1)), Some(Rat(15, 2)), Some(Rat(12, 1))},
        cr \in {RZero, Rat(6, 1)}}

Situations ==
    {Situation(ph, w, c) : ph \in PressurePhases, w \in {0, 3, 5, 7, 10}, c \in Chases}

\* a direct call of calculate(); what the builder holds plays no part in it,
\* so it is made beside one builder only
Calculate ==
    /\ hist = <<>> /\ pres = None /\ builder.target = None /\ filler = Dot
    /\ \E m \in Situations, w5 \in {0, 2, 3}, nb \in BOOLEAN, bsb \in {0, 13, 20, 40} :
          pres' = Some([match |-> m,
                        wickets_in_last_5_overs |-> w5,
                        is_new_batter |-> nb,
                        balls_since_boundary |-> bsb,
                        out |-> calculate(m, w5, nb, bsb)])
    /\ UNCHANGED <<builder, ctx, raised, hist, collab, filler, fresh, freshCtx, drv>>

\* calculate() reached directly or through build() in an innings
NextPressure ==
    \/ Calculate
    \/ pres = None /\ NextBall
    \/ pres = None /\ SetTarget

SpecPressure == Init /\ [][NextPressure]_vars

\* every (level, score) pair calculate() has returned: to the direct caller
\* and into the last snapshot
Returned ==
    (IF pres = None THEN {} ELSE {Val(pres).out})
    \cup (IF ctx = None THEN {}
          ELSE {[level |-> Val(ctx).pressure, score |-> Val(ctx).pressure_score]})

\* C9: for every MatchSituation, wickets_in_last_5_overs, is_new_batter and
\* balls_since_boundary, calculate returns a score in [0, 1].
C9_PressureRange ==
    \A r \in Returned : RLe(RZero, r.score) /\ RLe(r.score, ROne)

\* a direct call in which the increments add up to more than 1
C9_Witness ==
    /\ pres # None
    /\ RLt(ROne, raw_pressure(Val(pres).match, Val(pres).wickets_in_last_5_overs,
                              Val(pres).is_new_batter, Val(pres).balls_since_boundary))
    /\ Val(pres).out.score = ROne

\* C10: the level returned by calculate is CRITICAL iff score >= 0.8, INTENSE
\* iff 0.6 <= score < 0.8, TENSE iff 0.4 <= score < 0.6, BUILDING iff
\* 0.2 <= score < 0.4 and CALM iff score < 0.2; the snapshot's pressure and
\* pressure_score agree under this mapping.
C10_LevelMapping ==
    \A r \in Returned :
        /\ r.level = "CRITICAL" <=> RLe(Rat(4, 5), r.score)
        /\ r.level = "INTENSE" <=> RLe(Rat(3, 5), r.score) /\ RLt(r.score, Rat(4, 5))
        /\ r.level = "TENSE" <=> RLe(Rat(2, 5), r.score) /\ RLt(r.score, Rat(3, 5))
        /\ r.level = "BUILDING" <=> RLe(Rat(1, 5), r.score) /\ RLt(r.score, Rat(2, 5))
        /\ r.level = "CALM" <=> RLt(r.score, Rat(1, 5))

\* a direct call whose score is exactly 0.8, mapped to CRITICAL
C10_Witness ==
    /\ pres # None
    /\ Val(pres).out.score = Rat(4, 5)
    /\ Val(pres).out.level = "CRITICAL"

\* --------------------------------------------- builds with collaborators

CollabEvents(ball) ==
    {Event(ball, Side1, Single), Event(ball, Side1, Wicket), Event(ball, Side2, Four)}

StatsOutcomes == {StatsRaises, StatsNothing, StatsMatchup(4), StatsMatchup(12)}

Historical(i) == Callback("historical", "parallel", i)

RagOutcomes ==
    {RagRaises, RagReturns(<<>>),
     RagReturns(<<Historical(1), Historical(2), Historical(3), Historical(4)>>)}

\* a builder constructed with or without a stats engine and a retriever
InitCollab ==
    /\ \E rag \in BOOLEAN, stats \in BOOLEAN : InitWith(NewBuilder("T20", rag, stats), Idle)
    /\ filler = Dot

\* a build() during which the configured collaborators raise or answer
CollabBall ==
    /\ Len(hist) < FreeBalls
    /\ \E e \in CollabEvents(Len(hist) + 1),
          so \in (IF builder.stats_engine THEN StatsOutcomes ELSE {StatsNothing}),
          ro \in (IF builder.rag_retriever THEN RagOutcomes ELSE {RagReturns(<<>>)}) :
          Build(e, so, ro)
    /\ UNCHANGED <<filler, pres, drv>>

NextCollab == CollabBall

SpecCollab == InitCollab /\ [][NextCollab]_vars

\* the builder without its references to the collaborators
Aggregates(b) == [b EXCEPT !.stats_engine = FALSE, !.rag_retriever = FALSE]

\* C6: when get_head_to_head and/or retrieve raises during build(), build()
\* returns a RichContext and raises nothing, the failing collaborator's
\* enrichment is absent, and the snapshot and every internal aggregate are
\* the ones of a builder configured without that collaborator.
C6_FailSoft ==
    [][LET so == collab'.stats
           ro == collab'.rag
           stats_failed == builder.stats_engine /\ so.kind = "raise"
           rag_failed == builder.rag_retriever /\ ro.kind = "raise"
           without == [builder EXCEPT !.stats_engine = @ /\ ~stats_failed,
                                      !.rag_retriever = @ /\ ~rag_failed]
           ref == build(without, hist'[Len(hist')], so, ro)
       IN (Len(hist') = Len(hist) + 1 /\ (stats_failed \/ rag_failed)) =>
             /\ ~raised'
             /\ ctx' = Some(ref.ctx)
             /\ stats_failed => Val(ctx').narrative.matchup_context = None
             /\ rag_failed =>
                   \A i \in DOMAIN Val(ctx').narrative.callbacks_available :
                       Val(ctx').narrative.callbacks_available[i].source = "own"
             /\ Aggregates(builder') = Aggregates(ref.builder)]_vars

\* a second build() in which both collaborators raised and that still
\* returned a snapshot, with the tracker's own callbacks
C6_Witness ==
    /\ builder.stats_engine /\ builder.rag_retriever
    /\ collab.stats = StatsRaises /\ collab.rag = RagRaises
    /\ Len(hist) >= 2
    /\ ctx # None
    /\ Val(ctx).narrative.callbacks_available # <<>>

\* ------------------------------------------------------- a second innings

InitInnings ==
    /\ InitWith(NewBuilder("T20", FALSE, FALSE), Idle)
    /\ filler = Dot

\* a delivery of a short innings
InningsBall ==
    /\ Len(hist) < FreeBalls
    /\ \E e \in ShortEvents(Len(hist) + 1) : Build(e, StatsNothing, RagReturns(<<>>))
    /\ UNCHANGED <<filler, pres, drv>>

\* new_innings(2) after the first innings; from here on a builder constructed
\* at this moment is driven beside the real one
NewInnings ==
    /\ builder.innings_number = 1
    /\ hist # <<>>
    /\ builder' = new_innings(builder, 2)
    /\ fresh' = Some([NewBuilder(builder.format, builder.rag_retriever,
                                 builder.stats_engine)
                         EXCEPT !.innings_number = 2])
    /\ freshCtx' = None
    /\ hist' = <<>>
    /\ UNCHANGED <<ctx, raised, collab, filler, pres, drv>>

\* add_phrase_to_avoid(), as the engine calls it with the text it generated
AddPhrase ==
    /\ Len(builder.recent_phrases) < MaxPhrases
    /\ builder' = add_phrase_to_avoid(builder, "phrase")
    /\ fresh' = IF fresh = None THEN None
                ELSE Some(add_phrase_to_avoid(Val(fresh), "phrase"))
    /\ UNCHANGED <<ctx, raised, hist, collab, filler, freshCtx, pres, drv>>

NextInnings == InningsBall \/ SetTarget \/ NewInnings \/ AddPhrase

SpecInnings == InitInnings /\ [][NextInnings]_vars

\* a snapshot without the phrase-avoidance history
WithoutPhrases(c) == [c EXCEPT !.avoid_phrases = <<>>]

\* C4: after new_innings(n) the builder returns, for any subsequent event
\* sequence, the same snapshots as a freshly constructed ContextBuilder with
\* innings number n, the phrase-avoidance history apart.
C4_NewInningsResets ==
    (fresh # None /\ freshCtx # None) =>
        /\ ctx # None
        /\ WithoutPhrases(Val(ctx)) = WithoutPhrases(Val(freshCtx))

\* a snapshot of the second innings that shows the first innings' surviving
\* non-striker as a partner, where a new builder's shows none
C4_Witness ==
    /\ fresh # None /\ freshCtx # None /\ ctx # None
    /\ Val(ctx).match.innings_number = 2
    /\ Val(ctx).match = Val(freshCtx).match
    /\ Val(ctx).partnership.batter1_name # Val(freshCtx).partnership.batter1_name

\* ------------------------------------ the callers that own a ContextBuilder

\* the /commentary route or the demo script, at the top of its loop over
\* parse_innings() with a builder it has just constructed
Driver(kind) == [kind |-> kind, pc |-> "loop", parsed |-> <<>>]

InitCallers ==
    /\ \E kind \in {"route", "demo"} :
          InitWith(NewBuilder("T20", FALSE, FALSE), Driver(kind))
    /\ filler = Dot

\* One turn of the loop: the parser yields the next event and the caller
\* passes it to build(). The route leaves the loop at the requested ball,
\* which the innings holds; the demo goes on to comment a key moment.
DriverLoop ==
    /\ drv.pc = "loop"
    /\ Len(drv.parsed) < FreeBalls
    /\ \E e \in ShortEvents(Len(drv.parsed) + 1),
          commented \in (IF drv.kind = "route" /\ Len(drv.parsed) + 1 = FreeBalls
                         THEN {TRUE} ELSE BOOLEAN) :
          /\ Build(e, StatsNothing, RagReturns(<<>>))
          /\ drv' = [drv EXCEPT !.parsed = Append(@, e),
                                !.pc = IF commented THEN "generate" ELSE "loop"]
    /\ UNCHANGED <<filler, pres>>

\* CommentaryEngine.generate(event, persona) for the commented event: the
\* engine holds the caller's builder and calls build(event) itself, and adds
\* the text to the phrases to avoid when the LLM produced one
EngineGenerate ==
    /\ drv.pc = "generate"
    /\ \E phrase \in {None, Some("phrase")} :
          BuildThen(drv.parsed[Len(drv.parsed)], StatsNothing, RagReturns(<<>>), phrase)
    /\ drv' = [drv EXCEPT !.pc = IF drv.kind = "route" THEN "done" ELSE "loop"]
    /\ UNCHANGED <<filler, pres>>

\* the demo's loop ends with the innings
DemoEnds ==
    /\ drv.kind = "demo"
    /\ drv.pc = "loop"
    /\ drv' = [drv EXCEPT !.pc = "done"]
    /\ UNCHANGED <<builder, ctx, raised, hist, collab, filler, fresh, freshCtx, pres>>

NextCallers == DriverLoop \/ EngineGenerate \/ DemoEnds

SpecCallers == InitCallers /\ [][NextCallers]_vars

\* C5: in the route and in the demo loop, together with
\* CommentaryEngine.generate, every event of the innings up to and including
\* the commented event reaches build() exactly once and in arrival order: the
\* events build() has received are the events parsed so far.
C5_ExactlyOnce ==
    drv.kind # "idle" => hist = drv.parsed

\* the route has answered: build() received the requested ball twice and
\* the snapshot the commentary was made from counts its runs twice
C5_Witness ==
    /\ drv.kind = "route" /\ drv.pc = "done"
    /\ hist = Append(drv.parsed, drv.parsed[Len(drv.parsed)])
    /\ ctx # None
    /\ Val(ctx).match.total_runs > SumRuns(drv.parsed)

\* ------------------------------------------------- one bowler's long spell

SpellKinds == {Dot, Four, Wicket}

\* a delivery of an innings in which w1 bowls every ball to b1
SpellBall ==
    /\ Len(hist) < SpellBalls
    /\ \E k \in SpellKinds :
          Build(Event(Len(hist) + 1, Side1, k), StatsNothing, RagReturns(<<>>))
    /\ UNCHANGED <<filler, pres, drv>>

NextSpell == SpellBall

SpecSpell == InitInnings /\ [][NextSpell]_vars

\* the last n events build() received are boundaries
LastAreBoundaries(n) ==
    /\ Len(hist) >= n
    /\ \A i \in (Len(hist) - n + 1)..Len(hist) : hist[i].is_boundary

\* C11: after update() has processed 3 consecutive boundary events the
\* momentum is BATTING_DOMINANT, whatever the momentum and the counters were
\* before those three events.
C11_BoundarySpree ==
    (ctx # None /\ LastAreBoundaries(3)) =>
        /\ Val(ctx).narrative.momentum = "BATTING_DOMINANT"
        /\ builder.tracker.current_momentum = "BATTING_DOMINANT"

\* three wickets in the spell made the bowling dominant; the third of three
\* boundaries that follow turns the momentum
C11_Witness ==
    /\ ctx # None
    /\ Len(hist) = 6
    /\ \A i \in 1..3 : hist[i].is_wicket
    /\ LastAreBoundaries(3)
    /\ builder.tracker.wickets_in_spell >= 2
    /\ builder.tracker.momentum_shift_ball = Some(6)
    /\ Val(ctx).narrative.momentum = "BATTING_DOMINANT"

\* rules (a)-(d) of the cascade on the tracker as update() leaves it
HigherRuleFires(t) ==
    \/ t.consecutive_boundaries >= 3
    \/ t.consecutive_dots >= 6
    \/ t.wickets_in_spell >= 2
    \/ t.runs_since_wicket >= 50

\* C12: MOMENTUM_SHIFT is produced only by a wicket event on which none of
\* the rules (a)-(d) fires; after a non-wicket event the momentum is the
\* cascade's and never MOMENTUM_SHIFT.
C12_ShiftTransient ==
    ctx # None =>
        /\ Val(ctx).narrative.momentum = "MOMENTUM_SHIFT" <=>
              (Val(ctx).event.is_wicket /\ ~HigherRuleFires(builder.tracker))
        /\ ~Val(ctx).event.is_wicket =>
              Val(ctx).narrative.momentum \in
                  {"BATTING_DOMINANT", "BOWLING_DOMINANT", "BALANCED"}

\* the delivery after a wicket that shifted the momentum: the momentum
\* changes again on this ball, to BALANCED
C12_Witness ==
    /\ ctx # None
    /\ Len(hist) >= 2
    /\ hist[Len(hist) - 1].is_wicket
    /\ ~Val(ctx).event.is_wicket
    /\ builder.tracker.momentum_shift_ball = Some(Len(hist))
    /\ Val(ctx).narrative.momentum = "BALANCED"

\* ------------------------------------------------- one batter's long innings

\* b1 faces every ball: a few deliveries of any score, then fours
BattingEvents ==
    LET ball == Len(hist) + 1
    IN IF Len(hist) < FreeBalls
       THEN {Event(ball, Side1, k) : k \in {Dot, Single, Double, Four}}
       ELSE {Event(ball, Side1, Four)}

BattingBall ==
    /\ Len(hist) < BattingBalls
    /\ \E e \in BattingEvents : Build(e, StatsNothing, RagReturns(<<>>))
    /\ UNCHANGED <<filler, pres, drv>>

NextBatting == BattingBall

SpecBatting == InitInnings /\ [][NextBatting]_vars

\* the runs of the events in which p batted
RECURSIVE RunsOf(_, _)
RunsOf(p, events) ==
    IF events = <<>> THEN 0
    ELSE (IF events[1].batter = p THEN events[1].runs_batter ELSE 0)
         + RunsOf(p, Tail(events))

\* the thresholds a batter on r runs is within 15 runs of
Approached(r) == {m \in {50, 100, 150, 200} : r < m /\ m <= r + 15}

\* C13: for a batter on r runs, approaching_milestone is the smallest m of
\* 50, 100, 150, 200 with r < m <= r + 15 and balls_to_milestone is m - r;
\* both are None when there is no such m. 42 runs give "50" with 8; a batter
\* on exactly 50 is not flagged for 50.
C13_MilestoneDetection ==
    ctx # None =>
        LET r == RunsOf(Val(ctx).event.batter, hist)
            bc == Val(ctx).batter
            m == CHOOSE x \in Approached(r) : \A y \in Approached(r) : x <= y
        IN /\ bc.runs_scored = r
           /\ Approached(r) = {} =>
                 bc.approaching_milestone = None /\ bc.balls_to_milestone = None
           /\ Approached(r) # {} =>
                 /\ bc.approaching_milestone =
                       Some(CASE m = 50 -> "50" [] m = 100 -> "100"
                              [] m = 150 -> "150" [] m = 200 -> "200")
                 /\ bc.balls_to_milestone = Some(m - r)
           /\ r = 42 => bc.approaching_milestone = Some("50")
                        /\ bc.balls_to_milestone = Some(8)
           /\ r = 50 => bc.approaching_milestone = None

\* the batter on 42
C13_Witness ==
    /\ ctx # None
    /\ Val(ctx).batter.runs_scored = 42
    /\ Val(ctx).batter.approaching_milestone = Some("50")
    /\ Val(ctx).batter.balls_to_milestone = Some(8)

\* ------------------------------------------- an innings through its phases

\* a builder for a match of any format; every delivery of the innings
\* yields the same
InitPhase ==
    /\ \E fmt \in Formats : InitWith(NewBuilder(fmt, FALSE, FALSE), Idle)
    /\ filler \in {Dot, Four}

PhaseBall ==
    /\ Len(hist) < PhaseBalls
    /\ Build(Event(Len(hist) + 1, Side1, filler), StatsNothing, RagReturns(<<>>))
    /\ UNCHANGED <<filler, pres, drv>>

NextPhase == PhaseBall

SpecPhase == InitPhase /\ [][NextPhase]_vars

\* the phase of an innings of the format after n balls: 6.0 overs are 36
\* balls, 15.0 are 90, 10.0 are 60 and 40.0 are 240
PhaseAfter(fmt, n) ==
    CASE fmt = "T20" -> (IF n <= 36 THEN "POWERPLAY"
                         ELSE IF n <= 90 THEN "MIDDLE_OVERS" ELSE "DEATH_OVERS")
      [] fmt = "ODI" -> (IF n <= 60 THEN "POWERPLAY"
                         ELSE IF n <= 240 THEN "MIDDLE_OVERS" ELSE "DEATH_OVERS")
      [] OTHER -> (IF n < 180 THEN "EARLY_INNINGS"
                   ELSE IF n < 360 THEN "MIDDLE_INNINGS" ELSE "LATE_INNINGS")

RECURSIVE Replay(_, _)
Replay(b, events) ==
    IF events = <<>> THEN b
    ELSE Replay(build(b, events[1], StatsNothing, RagReturns(<<>>)).builder,
                Tail(events))

\* a player's entry of a stats dictionary, or the entry the player starts with
StatsOf(stats, player, new) == IF player \in DOMAIN stats THEN stats[player] ELSE new

\* the deliveries the bowler's aggregates have counted
BowlerDeliveries(s) == 6 * s.overs + s.balls_this_over

\* C15: build() has no duplicate guard: after two calls with the same event
\* total_runs has grown by 2 x runs_total, the balls of the innings by 2 and
\* the batter's and the bowler's aggregates by two deliveries, relative to the
\* state before the first call.
C15_DoubleBuild ==
    (Len(hist) >= 2 /\ hist[Len(hist)] = hist[Len(hist) - 1]) =>
        LET e == hist[Len(hist)]
            before == Replay(NewBuilder(builder.format, builder.rag_retriever,
                                        builder.stats_engine),
                             SubSeq(hist, 1, Len(hist) - 2))
            bat0 == StatsOf(before.batter_stats, e.batter, NewBatterStats)
            bat2 == StatsOf(builder.batter_stats, e.batter, NewBatterStats)
            bowl0 == StatsOf(before.bowler_stats, e.bowler, NewBowlerStats)
            bowl2 == StatsOf(builder.bowler_stats, e.bowler, NewBowlerStats)
        IN /\ builder.total_runs = before.total_runs + 2 * e.runs_total
           /\ builder.balls_in_innings = before.balls_in_innings + 2
           /\ bat2.balls = bat0.balls + 2
           /\ bat2.runs = bat0.runs + 2 * e.runs_batter
           /\ BowlerDeliveries(bowl2) = BowlerDeliveries(bowl0) + 2
           /\ bowl2.runs = bowl0.runs + 2 * e.runs_total
           /\ ctx # None /\ Val(ctx).match.total_runs = builder.total_runs

\* one four, passed to build() by the loop and again by the engine
C15_Witness ==
    /\ Len(hist) = 2
    /\ hist[1] = hist[2]
    /\ hist[1].runs_total = 4
    /\ ctx # None
    /\ Val(ctx).match.total_runs = 8
    /\ Val(ctx).batter.balls_faced = 2

\* ------------------------------------------------- a snapshot kept by a caller

class_level_events == {"recent_events"}
class_level == {}

\* what a write to builder a's state leaves in builder b's
share(a, b) == [f \in DOMAIN b |-> IF f \in class_level THEN a[f] ELSE b[f]]

\* the second builder and its caller: the events it has been given, who
\* called build() last and how often the turn has passed (up to 2)
Second(events, last, turns) ==
    [kind |-> "second", pc |-> last, parsed |-> events, turns |-> turns]

Turns(last) == IF drv.pc \in {"idle", last} THEN drv.turns ELSE Min(drv.turns + 1, 2)

IsolationKinds == {Four, Wicket}

InitIsolation ==
    /\ builder = NewBuilder("T20", FALSE, FALSE)
    /\ fresh = Some(NewBuilder("T20", FALSE, FALSE))
    /\ ctx = None
    /\ freshCtx = None
    /\ raised = FALSE
    /\ hist = <<>>
    /\ collab = NoCollab
    /\ pres = None
    /\ filler = Dot
    /\ drv = Second(<<>>, "idle", 0)

\* build() on builder A with the next event of its match
BuildA ==
    /\ Len(hist) < IsolationBalls
    /\ \E k \in IsolationKinds :
          LET e == Event(Len(hist) + 1, Side1, k)
              r == build(builder, e, StatsNothing, RagReturns(<<>>))
          IN /\ builder' = r.builder
             /\ ctx' = Some(r.ctx)
             /\ hist' = Append(hist, e)
             /\ fresh' = Some(share(r.builder, Val(fresh)))
    /\ drv' = Second(drv.parsed, "A", Turns("A"))
    /\ UNCHANGED <<raised, collab, filler, freshCtx, pres>>

\* build() on builder B with the next event of its match
BuildB ==
    /\ Len(drv.parsed) < IsolationBalls
    /\ \E k \in IsolationKinds :
          LET e == Event(Len(drv.parsed) + 1, Side2, k)
              r == build(Val(fresh), e, StatsNothing, RagReturns(<<>>))
          IN /\ fresh' = Some(r.builder)
             /\ freshCtx' = Some(r.ctx)
             /\ drv' = Second(Append(drv.parsed, e), "B", Turns("B"))
             /\ builder' = share(r.builder, builder)
    /\ UNCHANGED <<ctx, raised, hist, collab, filler, pres>>

NextIsolation == BuildA \/ BuildB

SpecIsolation == InitIsolation /\ [][NextIsolation]_vars

\* the snapshot the last build() returns to a builder that processes the
\* events alone
AloneSnapshot(events) ==
    build(Replay(NewBuilder("T20", FALSE, FALSE), FirstN(events, Len(events) - 1)),
          events[Len(events)], StatsNothing, RagReturns(<<>>)).ctx

ChaseTargets == {30, 125, 400}
ChaseKinds == {Dot, Single, Four}

\* the second innings of a T20 match: set_target() before its first ball
InitChase ==
    /\ \E t \in ChaseTargets :
          InitWith(set_target(NewBuilder("T20", FALSE, FALSE), t), Idle)
    /\ filler \in ChaseKinds

\* the next delivery of the chase, which ends with the target reached or
\* with the last ball of the 20 overs
ChaseBall ==
    /\ Len(hist) < ChaseBalls
    /\ builder.total_runs < Val(builder.target)
    /\ Build(Event(Len(hist) + 1, Side1, filler), StatsNothing, RagReturns(<<>>))
    /\ UNCHANGED <<filler, pres, drv>>

NextChase == ChaseBall

SpecChase == InitChase /\ [][NextChase]_vars

\* the endgame terms of a chase, in hundredths: (30 - balls_remaining) in the
\* last 30 balls and 20 more with at most 20 runs to get from at most 12 balls
EndgameTerms(m) ==
    (IF Val(m.balls_remaining) <= 30 THEN 30 - Val(m.balls_remaining) ELSE 0)
    + (IF Val(m.runs_required) <= 20 /\ Val(m.balls_remaining) <= 12 THEN 20 ELSE 0)

\* the score before the clamp that the last build() passed to the clamp
SnapshotRaw ==
    raw_pressure(Val(ctx).match, builder.wickets_last_5_overs,
                 is_new_batter(Val(ctx).batter), builder.balls_since_boundary)

\* the endgame terms within SnapshotRaw
SnapshotEndgame ==
    IF Val(ctx).match.required_rate # None
    THEN balls_remaining_pressure(Val(ctx).match) ELSE 0

\* C18: in a chase the score before the clamp includes (30 - balls_remaining)
\* x 0.01 once balls_remaining <= 30 and 0.2 more with runs_required <= 20 and
\* balls_remaining <= 12, for every balls_remaining from 0 upward, on every
\* snapshot build() produces through the last ball of the chase.
C18_EndgamePressure ==
    (ctx # None /\ Val(ctx).match.balls_remaining # None) =>
        /\ SnapshotEndgame = EndgameTerms(Val(ctx).match)
        /\ Val(ctx).pressure_score =
              clamp(RAdd(SnapshotRaw,
                         Pct(EndgameTerms(Val(ctx).match) - SnapshotEndgame)))

\* the last ball of a chase of 125 that got a single from every ball
C18_Witness ==
    /\ ctx # None
    /\ Len(hist) = ChaseBalls
    /\ Val(ctx).match.balls_remaining = Some(0)
    /\ Val(ctx).match.runs_required = Some(5)
    /\ Val(ctx).match.required_rate = None
    /\ Val(ctx).pressure_score = Pct(65)

\* ------------------------------------------------------ the rate gap

\* the rate-gap term of a chase with a required rate: min(0.3, 0.05 x
\* max(0, required_rate - current_rate)), and -0.1 when the gap is below -2
RateGapTerm(m) ==
    LET rate_diff == RAdd(Val(m.required_rate), RNeg(m.current_run_rate))
    IN RAdd(RMin(Pct(30), RMax(RZero, Rat(rate_diff.n, 20 * rate_diff.d))),
            IF RLt(rate_diff, Rat(-2, 1)) THEN Pct(-10) ELSE RZero)

\* the score before the clamp of the direct call
DirectRaw ==
    raw_pressure(Val(pres).match, Val(pres).wickets_in_last_5_overs,
                 Val(pres).is_new_batter, Val(pres).balls_since_boundary)

\* C19: for every chase situation with a required rate the chase contribution
\* includes min(0.3, 0.05 x max(0, required_rate - current_rate)) and loses
\* 0.1 when required_rate - current_rate < -2, for every current run rate
\* >= 0, the rate 0 of an innings without a run included.
C19_RateGap ==
    (pres # None /\ is_chase(Val(pres).match) /\ Val(pres).match.required_rate # None) =>
        /\ rate_gap_pressure(Val(pres).match) = RateGapTerm(Val(pres).match)
        /\ Val(pres).out.score =
              clamp(RAdd(DirectRaw,
                         RAdd(RateGapTerm(Val(pres).match),
                              RNeg(rate_gap_pressure(Val(pres).match)))))

\* a chase that needs 12 an over and has no run yet scores 0.5 in the death
\* overs: the base alone, with no rate-gap term
C19_Witness ==
    /\ pres # None
    /\ Val(pres).match.required_rate = Some(Rat(12, 1))
    /\ Val(pres).match.current_run_rate = RZero
    /\ Val(pres).match.balls_remaining = Some(60)
    /\ Val(pres).match.runs_required = Some(15)
    /\ Val(pres).match.phase = "DEATH_OVERS"
    /\ Val(pres).match.total_wickets = 0
    /\ Val(pres).wickets_in_last_5_overs = 0
    /\ ~Val(pres).is_new_batter
    /\ Val(pres).balls_since_boundary = 0
    /\ Val(pres).out.score = Pct(50)

\* ------------------------------------------------------- a bowler's over

OverKinds == {Dot, Single, Wide}

\* deliveries of one bowler, wides among them
OverBall ==
    /\ Len(hist) < OverBalls
    /\ \E k \in OverKinds :
          Build(Event(Len(hist) + 1, Side1, k), StatsNothing, RagReturns(<<>>))
    /\ UNCHANGED <<filler, pres, drv>>

NextOver == OverBall

SpecOver == InitInnings /\ [][NextOver]_vars

\* a delivery that counts toward the six of an over
Legal(e) == e.extras_type \notin {Some("wide"), Some("noball")}

\* overs of six legal deliveries: the overs completed and the maidens among
\* them, and the legal deliveries and the runs conceded in the over under way
RECURSIVE OversOf(_)
OversOf(events) ==
    IF events = <<>>
    THEN [overs |-> 0, maidens |-> 0, balls_this_over |-> 0, runs_this_over |-> 0]
    ELSE LET e == events[Len(events)]
             o == OversOf(SubSeq(events, 1, Len(events) - 1))
             balls == o.balls_this_over + (IF Legal(e) THEN 1 ELSE 0)
             runs == o.runs_this_over + e.runs_total
         IN IF balls = 6
            THEN [overs |-> o.overs + 1,
                  maidens |-> o.maidens + (IF runs = 0 THEN 1 ELSE 0),
                  balls_this_over |-> 0, runs_this_over |-> 0]
            ELSE [o EXCEPT !.balls_this_over = balls, !.runs_this_over = runs]

\* C20: a bowler's completed overs grow by one exactly when the bowler has
\* bowled 6 legal deliveries since the previous over was completed, wides and
\* no-balls not counting toward the 6; at that moment maidens grows by one iff
\* the over conceded no run, and balls-this-over and runs-this-over are 0 again.
C20_OverCompletion ==
    hist # <<>> =>
        LET s == builder.bowler_stats["w1"]
            o == OversOf(hist)
        IN /\ s.overs = o.overs
           /\ s.maidens = o.maidens
           /\ s.balls_this_over = o.balls_this_over
           /\ s.runs_this_over = o.runs_this_over

\* an over is counted after five dot balls and a wide
C20_Witness ==
    /\ Len(hist) = 6
    /\ hist[2].extras_type = Some("wide")
    /\ \A i \in {1, 3, 4, 5, 6} : hist[i].runs_total = 0
    /\ builder.bowler_stats["w1"].overs = 1
    /\ builder.bowler_stats["w1"].balls_this_over = 0
    /\ Val(ctx).bowler.overs_bowled = 10

\* ------------------------------------------------------- a bowler's spell

\* the deliveries since the bowler identity last changed between consecutive
\* events: the longest suffix of events bowled by the bowler of the last one
RECURSIVE SpellOf(_)
SpellOf(events) ==
    IF Len(events) <= 1 THEN events
    ELSE LET before == SubSeq(events, 1, Len(events) - 1)
             e == events[Len(events)]
         IN IF before[Len(before)].bowler = e.bowler
            THEN Append(SpellOf(before), e) ELSE <<e>>

\* C21: bowler.current_spell_wickets, current_spell_runs and
\* current_spell_overs of a snapshot count only the deliveries since the bowler
\* identity last changed between consecutive events: when another bowler has
\* bowled in between, the returning bowler's spell counters restart from zero.
C21_SpellCounters ==
    ctx # None =>
        /\ Val(ctx).bowler.current_spell_wickets = CountWickets(SpellOf(hist))
        /\ Val(ctx).bowler.current_spell_runs = SumRuns(SpellOf(hist))
        /\ Val(ctx).bowler.current_spell_overs =
              10 * (Len(SpellOf(hist)) \div 6) + (Len(SpellOf(hist)) % 6)

\* w1 takes a wicket, w2 bowls a ball, and the first ball of w1's new spell
\* shows the wicket of the spell before
C21_Witness ==
    /\ ctx # None
    /\ Len(hist) = 3
    /\ hist[1].bowler = "w1" /\ hist[1].is_wicket
    /\ hist[2].bowler = "w2"
    /\ hist[3].bowler = "w1" /\ ~hist[3].is_wicket
    /\ Val(ctx).bowler.current_spell_wickets = 1
    /\ Val(ctx).bowler.wickets = 1

\* ------------------------------------------------------ the callback merge

MergeKinds == {Single, Wicket}

MergeOutcomes ==
    {RagRaises, RagReturns(<<>>), RagReturns(<<Historical(1)>>),
     RagReturns(<<Historical(1), Historical(2), Historical(3),
                  Historical(4), Historical(5), Historical(6)>>)}

\* a builder constructed with a retriever
InitMerge ==
    /\ InitWith(NewBuilder("T20", TRUE, FALSE), Idle)
    /\ filler = Dot

\* a build() during which the retriever raises or returns its results
MergeBall ==
    /\ Len(hist) < MergeBalls
    /\ \E k \in MergeKinds, ro \in MergeOutcomes :
          Build(Event(Len(hist) + 1, Side1, k), StatsNothing, ro)
    /\ UNCHANGED <<filler, pres, drv>>

NextMerge == MergeBall

SpecMerge == InitMerge /\ [][NextMerge]_vars

\* the tracker's own callbacks for the last event
OwnCallbacks == get_relevant_callbacks(builder.tracker, hist[Len(hist)])

\* C22: when the retriever is configured and its call succeeds,
\* narrative.callbacks_available is the retriever's results followed by the
\* tracker's own callbacks, cut to the first 5 entries: no own callback comes
\* before a historical one, the tracker contributes at most 3 and the list
\* never has more than 5 entries.
C22_CallbackMerge ==
    (ctx # None /\ builder.rag_retriever /\ collab.rag.kind = "ok") =>
        LET cbs == Val(ctx).narrative.callbacks_available
        IN /\ cbs = FirstN(collab.rag.callbacks \o OwnCallbacks, CallbackCap)
           /\ Len(cbs) <= CallbackCap
           /\ Len(OwnCallbacks) <= OwnCallbackCap
           /\ Cardinality({i \in DOMAIN cbs : cbs[i].source = "own"}) <= OwnCallbackCap
           /\ \A i, j \in DOMAIN cbs :
                 (i < j /\ cbs[i].source = "own") => cbs[j].source = "own"

\* four wickets are on the storyline; the retriever's one parallel is followed
\* by three of the tracker's callbacks
C22_Witness ==
    /\ ctx # None
    /\ Len(builder.tracker.storyline_events) = 4
    /\ collab.rag = RagReturns(<<Historical(1)>>)
    /\ Len(Val(ctx).narrative.callbacks_available) = 4
    /\ Val(ctx).narrative.callbacks_available[1] = Historical(1)
    /\ Val(ctx).narrative.callbacks_available[4].source = "own"

\* ------------------------------------------------------------- the tension

\* the dot balls at the end of the events: no run, no wicket
RECURSIVE DotRun(_)
DotRun(events) ==
    IF events = <<>> THEN 0
    ELSE LET e == events[Len(events)]
         IN IF e.runs_total = 0 /\ ~e.is_wicket
            THEN 1 + DotRun(SubSeq(events, 1, Len(events) - 1)) ELSE 0

\* C23: after every update tension_level is min(1.0, 0.3 + 0.3 if the event
\* is a wicket + 0.2 with 6 or more consecutive dot balls + 0.2 if the
\* momentum after this event is MOMENTUM_SHIFT), and it lies in [0, 1]. The
\* tension is in tenths.
C23_Tension ==
    ctx # None =>
        /\ Val(ctx).narrative.tension_level =
              Min(10, 3 + (IF hist[Len(hist)].is_wicket THEN 3 ELSE 0)
                        + (IF DotRun(hist) >= 6 THEN 2 ELSE 0)
                        + (IF Val(ctx).narrative.momentum = "MOMENTUM_SHIFT"
                           THEN 2 ELSE 0))
        /\ Val(ctx).narrative.tension_level \in 0..10

\* a wicket that shifts the momentum after six dot balls: 0.3 + 0.3 + 0.2,
\* the dot balls having ended with the wicket
C23_Witness ==
    /\ ctx # None
    /\ Len(hist) = 7
    /\ DotRun(SubSeq(hist, 1, 6)) = 6
    /\ hist[7].is_wicket
    /\ Val(ctx).narrative.momentum = "MOMENTUM_SHIFT"
    /\ Val(ctx).narrative.tension_level = 8

\* --------------------------------------------------- the batter who comes in

\* b1 bats with b2 until b1 is out; b3 comes in and faces the next deliveries
PartnershipEvents(ball) ==
    IF CountWickets(hist) = 0
    THEN {Event(ball, Side1, k) : k \in {Dot, Single, Wicket}}
    ELSE {CricketEvent(ball, "b3", "w1", "b2", k) : k \in {Dot, Single}}

PartnershipBall ==
    /\ Len(hist) < PartnershipBalls
    /\ \E e \in PartnershipEvents(Len(hist) + 1) :
          Build(e, StatsNothing, RagReturns(<<>>))
    /\ UNCHANGED <<filler, pres, drv>>

NextPartnership == PartnershipBall

SpecPartnership == InitInnings /\ [][NextPartnership]_vars

\* the index of the last wicket among the events, 0 without one
LastWicketAt(events) ==
    LET at == {i \in DOMAIN events : events[i].is_wicket}
    IN IF at = {} THEN 0 ELSE CHOOSE i \in at : \A j \in at : j <= i

\* C24: in the snapshot of a wicket event partnership.batter2_name is empty,
\* and once the next delivery has been processed for the new batter it is the
\* new batter's name, for the rest of the partnership.
C24_SecondBatter ==
    (ctx # None /\ LastWicketAt(hist) > 0) =>
        Val(ctx).partnership.batter2_name =
            IF LastWicketAt(hist) = Len(hist) THEN ""
            ELSE hist[LastWicketAt(hist) + 1].batter

\* b3 has faced two deliveries since b1 was out and the partnership still
\* has no second batter
C24_Witness ==
    /\ ctx # None
    /\ Len(hist) = 3
    /\ hist[1].is_wicket /\ hist[1].batter = "b1"
    /\ hist[2].batter = "b3" /\ hist[3].batter = "b3"
    /\ Val(ctx).partnership.batter1_name = "b2"
    /\ Val(ctx).partnership.batter2_name = ""
    /\ Val(ctx).partnership.balls = 3

\* ------------------------------------------------------------- the cascade

\* an innings that opens with fours, 50 runs and more, and goes on freely
CascadeEvents(ball) ==
    IF ball <= CascadeFours THEN {Event(ball, Side1, Four)}
    ELSE {Event(ball, Side1, k) : k \in {Dot, Four, Wicket}}

CascadeBall ==
    /\ Len(hist) < CascadeBalls
    /\ \E e \in CascadeEvents(Len(hist) + 1) : Build(e, StatsNothing, RagReturns(<<>>))
    /\ UNCHANGED <<filler, pres, drv>>

NextCascade == CascadeBall

SpecCascade == InitInnings /\ [][NextCascade]_vars

\* C25: the momentum after each update depends only on the tracker's counters
\* and the current event, in the priority (a) >= 3 consecutive boundaries,
\* (b) >= 6 consecutive dots, (c) >= 2 wickets in the spell, (d) >= 50 runs
\* since the last wicket, (e) wicket, (f) BALANCED: six dots give
\* BOWLING_DOMINANT even with 50 runs since the last wicket, a wicket with two
\* wickets in the spell gives BOWLING_DOMINANT, and UNCERTAIN never appears.
C25_CascadePriority ==
    ctx # None =>
        LET t == builder.tracker
            m == Val(ctx).narrative.momentum
            a == t.consecutive_boundaries >= 3
            b == t.consecutive_dots >= 6
            c == t.wickets_in_spell >= 2
            d == t.runs_since_wicket >= 50
            e == hist[Len(hist)].is_wicket
        IN /\ m = t.current_momentum
           /\ m # "UNCERTAIN"
           /\ a => m = "BATTING_DOMINANT"
           /\ (~a /\ (b \/ c)) => m = "BOWLING_DOMINANT"
           /\ (~a /\ ~b /\ ~c /\ d) => m = "BATTING_DOMINANT"
           /\ (~a /\ ~b /\ ~c /\ ~d /\ e) => m = "MOMENTUM_SHIFT"
           /\ (~a /\ ~b /\ ~c /\ ~d /\ ~e) => m = "BALANCED"

\* six dot balls after 52 runs without a wicket
C25_Witness ==
    /\ ctx # None
    /\ builder.tracker.runs_since_wicket >= 50
    /\ builder.tracker.consecutive_dots = 6
    /\ builder.tracker.wickets_in_spell = 0
    /\ Val(ctx).narrative.momentum = "BOWLING_DOMINANT"

\* ------------------------------------------------- the wickets of a spell

\* C26: the tracker's count of wickets in the spell is the number of wicket
\* events bowled by the current bowler since the bowler identity last
\* changed, a wicket on the first delivery of the spell or of the innings
\* included; so two wickets by one bowler with no other bowler in between
\* give BOWLING_DOMINANT unless rule (a) or (b) fires.
C26_WicketsInSpell ==
    ctx # None =>
        /\ builder.tracker.wickets_in_spell = CountWickets(SpellOf(hist))
        /\ (/\ CountWickets(SpellOf(hist)) >= 2
            /\ builder.tracker.consecutive_boundaries < 3
            /\ builder.tracker.consecutive_dots < 6) =>
              Val(ctx).narrative.momentum = "BOWLING_DOMINANT"

\* w1 takes wickets with the first two balls of the innings: one is counted
\* and the momentum is MOMENTUM_SHIFT
C26_Witness ==
    /\ ctx # None
    /\ Len(hist) = 2
    /\ hist[1].bowler = "w1" /\ hist[1].is_wicket
    /\ hist[2].bowler = "w1" /\ hist[2].is_wicket
    /\ builder.tracker.wickets_in_spell = 1
    /\ Val(ctx).narrative.momentum = "MOMENTUM_SHIFT"

\* ------------------------------------------------------------ the divisions

\* A variant of the divisions in which the economy is computed for every
\* bowler, whether or not an over has been completed.
divisions_unguarded(b, c) ==
    {[site |-> "economy", taken |-> TRUE,
      divisor |-> b.bowler_stats[c.bowler.name].overs]}

\* The divisions of build() and calculate() on builder b, which has just
\* returned snapshot c: whether the guard lets the division run, and its
\* divisor. current_rr, required_rate (balls_remaining / 6), strike_rate,
\* economy, the partnership's run_rate (partnership_balls / 6), and
\* runs_required / max(1, wickets_in_hand).
divisions(b, c) ==
    {[site |-> "current_rr", taken |-> b.overs_completed > 0,
      divisor |-> b.overs_completed],
     [site |-> "required_rate",
      taken |-> c.match.balls_remaining # None /\ Val(c.match.balls_remaining) > 0,
      divisor |-> IF c.match.balls_remaining # None
                  THEN Val(c.match.balls_remaining) ELSE 0],
     [site |-> "strike_rate", taken |-> b.batter_stats[c.batter.name].balls > 0,
      divisor |-> b.batter_stats[c.batter.name].balls],
     [site |-> "economy", taken |-> b.bowler_stats[c.bowler.name].overs > 0,
      divisor |-> b.bowler_stats[c.bowler.name].overs],
     [site |-> "run_rate", taken |-> b.partnership_balls > 0,
      divisor |-> b.partnership_balls],
     [site |-> "runs_per_wicket",
      taken |-> is_chase(c.match) /\ c.match.required_rate # None
                /\ c.match.runs_required # None,
      divisor |-> Max(1, wickets_in_hand(c.match))]}

C28_ShiftPoint ==
    /\ [](builder.tracker.momentum_shift_ball = None =>
             builder.tracker.current_momentum = "BALANCED")
    /\ [][Len(hist') = Len(hist) + 1 =>
             builder'.tracker.momentum_shift_ball =
                 IF builder'.tracker.current_momentum # builder.tracker.current_momentum
                 THEN Some(hist'[Len(hist')].ball_number)
                 ELSE builder.tracker.momentum_shift_ball]_vars

\* the momentum left BALANCED with the sixth dot ball and has not changed in
\* the two dot balls since
C28_Witness ==
    /\ Len(hist) = 8
    /\ DotRun(hist) = 8
    /\ builder.tracker.current_momentum = "BOWLING_DOMINANT"
    /\ builder.tracker.momentum_shift_ball = Some(6)

\* ------------------------------------------------- chases in every format

\* RichContext.to_prompt_context: in a chase the line of the rates formats
\* required_rate with ":.2f", which raises TypeError for None; every other
\* value it formats is a number or a string of the snapshot
to_prompt_context_raises(c) == is_chase(c.match) /\ c.match.required_rate = None

\* an innings of any format, first innings or chase
InitFormats ==
    /\ \E fmt \in Formats, t \in {None, Some(30), Some(400)} :
          InitWith(IF t = None THEN NewBuilder(fmt, FALSE, FALSE)
                   ELSE set_target(NewBuilder(fmt, FALSE, FALSE), Val(t)), Idle)
    /\ filler \in {Dot, Four}

FormatBall ==
    /\ Len(hist) < PhaseBalls
    /\ Build(Event(Len(hist) + 1, Side1, filler), StatsNothing, RagReturns(<<>>))
    /\ UNCHANGED <<filler, pres, drv>>

NextFormats == FormatBall

SpecFormats == InitFormats /\ [][NextFormats]_vars

\* C29: to_prompt_context() completes without error for every snapshot
\* build() can return, the snapshots of a chase whose required_rate or
\* balls_remaining is None included.
C29_PromptTotal == ctx # None => ~to_prompt_context_raises(Val(ctx))

\* the first snapshot of a Test chase: no over limit, no required rate
C29_Witness ==
    /\ ctx # None
    /\ Len(hist) = 1
    /\ builder.format = "Test"
    /\ Val(ctx).match.target = Some(400)
    /\ Val(ctx).match.balls_remaining = None
    /\ Val(ctx).match.required_rate = None
    /\ to_prompt_context_raises(Val(ctx))

Snap == Val(ctx)

\* the events a window of the last WindowSize deliveries holds
Window == LastN(hist, WindowSize)

\* C1: after every event, runs_in_last_5_overs of the snapshot is the sum of
\* runs_total over the last min(n, 30) events of the innings.
C1_SlidingWindowRuns ==
    ctx # None => Snap.recent.runs_in_last_5_overs = SumRuns(Window)

\* an innings longer than the window whose first delivery scored
C1_Witness ==
    /\ ctx # None
    /\ Len(hist) > WindowSize
    /\ hist[1].runs_total > 0
    /\ Snap.recent.runs_in_last_5_overs = SumRuns(hist)

\* C2: after every event, wickets_in_last_5_overs of the snapshot is the
\* number of wicket events among the last min(n, 30) events of the innings.
C2_SlidingWindowWickets ==
    ctx # None => Snap.recent.wickets_in_last_5_overs = CountWickets(Window)

\* an innings longer than the window whose first delivery was a wicket
C2_Witness ==
    /\ ctx # None
    /\ Len(hist) > WindowSize
    /\ hist[1].is_wicket
    /\ Snap.recent.wickets_in_last_5_overs = CountWickets(hist)

\* C3: the snapshot returned for a wicket event has a partnership of 0 runs
\* and 0 balls whose batter1_name is the event's non-striker.
C3_PartnershipReset ==
    (ctx # None /\ Snap.event.is_wicket) =>
        /\ Snap.partnership.runs = 0
        /\ Snap.partnership.balls = 0
        /\ Snap.partnership.batter1_name = Snap.event.non_striker

\* the snapshot of a wicket event: the wicket delivery itself is counted as
\* the first ball of the new partnership
C3_Witness ==
    /\ ctx # None
    /\ Snap.event.is_wicket
    /\ Snap.partnership.balls = 1
    /\ Snap.partnership.batter1_name = Snap.event.non_striker

\* C7: total_runs of the snapshot never decreases from one build() to the
\* next within an innings, and always is the sum of runs_total over the
\* events processed so far.
C7_RunsMonotone ==
    [][ctx' # None =>
          /\ Val(ctx').match.total_runs = SumRuns(hist')
          /\ ctx # None => Val(ctx').match.total_runs >= Snap.match.total_runs]_vars

\* a third snapshot of an innings that has scored, taken after a delivery
\* without runs
C7_Witness ==
    /\ ctx # None
    /\ Len(hist) >= 3
    /\ Snap.event.runs_total = 0
    /\ Snap.match.total_runs > 0

\* C8: in an innings of at most ten wicket events, total_wickets of the
\* snapshot is the number of wicket events processed, and both it and
\* wickets_in_hand lie in 0..10.
C8_WicketsBounded ==
    ctx # None =>
        /\ Snap.match.total_wickets = CountWickets(hist)
        /\ Snap.match.total_wickets \in 0..10
        /\ wickets_in_hand(Snap.match) \in 0..10

\* the snapshot of the tenth wicket
C8_Witness ==
    /\ ctx # None
    /\ Snap.event.is_wicket
    /\ CountWickets(hist) = 10
    /\ wickets_in_hand(Snap.match) = 0

=============================================================================
